---- MODULE Spec2Model ----
(***************************************************************************)
(* Snippet Status Report generator: the field rename pass, the flashless   *)
(* correction removal, the SSL capability flag, report assembly, the       *)
(* JSON <-> protobuf mapping engine and the CSV writer.                    *)
(*                                                                         *)
(* Python objects are modelled on a heap: every list and dict is an object *)
(* with an address, containers hold scalars or references, and a mutation  *)
(* in place is seen through every reference to the object.                 *)
(***************************************************************************)
EXTENDS Integers, Sequences, FiniteSets, TLC

VARIABLES
  pc,               \* position of the running function
  heap,             \* address -> list or dict object
  items,            \* response['items']: sequence of references to item dicts
  cur,              \* index in items of the item being processed
  stack,            \* call stack of _ReplaceJSONFields
  pass,             \* number of the rename pass that is running
  orig,             \* the input as it was given (trees, one per item)
  snap,             \* the item as the first rename pass left it (a tree)
  translated_item,  \* the dict object item.copy() made
  rm,               \* position of the list iterator of the removal loop
  report,           \* report.snippet_status: sequence of messages
  ssl,              \* what _IsSSLCapable returned when called on its own
  raised,           \* the exception that ended the run ("" if none)
  input,            \* mapping engine: the JSON mapping or message given
  enum_mode,        \* mapping engine: the use_enum_str_values argument
  full_mode,        \* mapping engine: the all_fields argument
  decoded,          \* what json2pb returned or raised
  encoded,          \* what pb2json returned or raised
  report_csv        \* the CSV stream: the rows written, or None

asmVars == <<translated_item, rm, report, ssl, raised>>
engVars == <<input, enum_mode, full_mode, decoded, encoded>>
vars == <<pc, heap, items, cur, stack, pass, orig, snap, asmVars, engVars, report_csv>>

----------------------------------------------------------------------------
(* Bounds of the model *)

MaxKeys == 5        \* keys of an input item in the rename specification
MaxNestedKeys == 2  \* ... of one that holds a nested list of dicts or a dict

----------------------------------------------------------------------------
(* generate_ssr.py: constants *)

RICH_MEDIA_CAPABILITY_SSL == 47
INVALID_SSL_DECLARATION == "INVALID_SSL_DECLARATION"
SSL_ATTRIBUTE == "SSL_ATTRIBUTE"
FLASHLESS_ATTRIBUTE == "FLASHLESS_ATTRIBUTE"

KEY_TRANSLATION ==
  [ advertiserId |-> "advertiser_id",
    buyerCreativeId |-> "buyer_creative_id",
    clickThroughUrl |-> "click_through_url",
    corrections |-> "snippet_correction",
    disapprovalReasons |-> "disapproval_reason",
    filteringReasons |-> "snippet_filtering",
    height |-> "height",
    productCategories |-> "detected_product_category",
    sensitiveCategories |-> "detected_sensitive_category",
    status |-> "status",
    width |-> "width" ]
  @@ ("corrections.details" :> "detail")
  @@ ("corrections.reason" :> "type")
  @@ ("disapprovalReasons.details" :> "detail")
  @@ ("disapprovalReasons.reason" :> "reason")
  @@ ("filteringReasons.date" :> "date")
  @@ ("filteringReasons.reasons" :> "item")
  @@ ("filteringReasons.reasons.filteringCount" :> "filtering_count")
  @@ ("filteringReasons.reasons.filteringStatus" :> "filtering_status")

----------------------------------------------------------------------------
(* JSON values.  A tree is a value with its containers inline; on the heap *)
(* a container holds scalars and references.                               *)

JStr(s) == [t |-> "str", s |-> s]
JInt(n) == [t |-> "int", n |-> n]
JList(l) == [t |-> "list", l |-> l]
JDict(d) == [t |-> "dict", d |-> d]
Ref(a) == [t |-> "ref", a |-> a]

IsContainer(v) == v.t \in {"list", "dict"}

EmptyFcn == [x \in {} |-> x]

RECURSIVE MergeAll(_)
MergeAll(S) ==
  IF S = {} THEN EmptyFcn
  ELSE LET f == CHOOSE g \in S : TRUE IN f @@ MergeAll(S \ {f})

(* CPython 2 dict: the table starts with 8 slots; an insertion that brings  *)
(* the filled slots (live keys and the dummies left by deletions) to 2/3   *)
(* of the table rebuilds it with more than 4 * used slots.                 *)
RECURSIVE Grow(_, _)
Grow(size, minused) == IF size > minused THEN size ELSE Grow(2 * size, minused)

RECURSIVE FreshSize(_, _, _)
FreshSize(done, n, size) ==
  IF done = n THEN size
  ELSE LET f == done + 1
       IN FreshSize(f, n, IF f * 3 >= size * 2 THEN Grow(8, 4 * f) ELSE size)

(* The heap object of a dict built by inserting its keys one by one (the   *)
(* JSON parser's result): no dummies, fill = used.                         *)
NewDict(d) ==
  [t |-> "dict", d |-> d, fill |-> Cardinality(DOMAIN d),
   size |-> FreshSize(0, Cardinality(DOMAIN d), 8)]

Cell(v, p) == IF IsContainer(v) THEN Ref(p) ELSE v

(* The heap that holds tree v at address p; a child lives at the address   *)
(* of its parent extended by its key or index.                             *)
RECURSIVE HeapOf(_, _)
HeapOf(v, p) ==
  IF v.t = "dict"
  THEN LET at(k) == Append(p, [k |-> k])
           kids == {HeapOf(v.d[k], at(k)) : k \in {x \in DOMAIN v.d : IsContainer(v.d[x])}}
       IN (p :> NewDict([k \in DOMAIN v.d |-> Cell(v.d[k], at(k))])) @@ MergeAll(kids)
  ELSE LET at(j) == Append(p, [i |-> j])
           kids == {HeapOf(v.l[j], at(j)) : j \in {x \in 1..Len(v.l) : IsContainer(v.l[x])}}
       IN (p :> JList([j \in 1..Len(v.l) |-> Cell(v.l[j], at(j))])) @@ MergeAll(kids)

(* The tree a heap value stands for (what Python's == compares). *)
RECURSIVE Deref(_, _)
Deref(h, v) ==
  IF v.t # "ref" THEN v
  ELSE LET o == h[v.a]
       IN IF o.t = "dict"
          THEN JDict([k \in DOMAIN o.d |-> Deref(h, o.d[k])])
          ELSE JList([j \in 1..Len(o.l) |-> Deref(h, o.l[j])])

NoValue == [t |-> "none"]

(* input families are built from these *)
SeqsUpTo(S, n) == UNION {[1..m -> S] : m \in 0..n}

(* the dict whose keys and values are the pairs of S with a value *)
DictOf(S) ==
  LET P == {p \in S : p[2] # NoValue}
  IN JDict([k \in {p[1] : p \in P} |-> (CHOOSE p \in P : p[1] = k)[2]])

----------------------------------------------------------------------------
(* Python dict operations on a heap object o.  A deletion leaves a dummy   *)
(* slot (fill is unchanged); the insertion of a new key takes a dummy slot *)
(* or, when fresh, an empty one (fill grows), and rebuilds the table when  *)
(* fill reaches 2/3 of its size.                                           *)

DictPop(o, k) == [o EXCEPT !.d = [x \in DOMAIN o.d \ {k} |-> o.d[x]]]

DictSetItem(o, k, v, fresh) ==
  IF k \in DOMAIN o.d THEN [o EXCEPT !.d[k] = v]
  ELSE LET d1 == [x \in DOMAIN o.d \cup {k} |-> IF x = k THEN v ELSE o.d[x]]
           used1 == Cardinality(DOMAIN d1)
           fill1 == IF fresh THEN o.fill + 1 ELSE o.fill
       IN IF fill1 * 3 >= o.size * 2
          THEN [o EXCEPT !.d = d1, !.fill = used1, !.size = Grow(8, 4 * used1)]
          ELSE [o EXCEPT !.d = d1, !.fill = fill1]

(* _ReplaceKey *)
ReplaceKey(dictionary, old_key, new_key, fresh) ==
  IF old_key \in DOMAIN dictionary.d
  THEN DictSetItem(DictPop(dictionary, old_key), new_key, dictionary.d[old_key], fresh)
  ELSE dictionary

----------------------------------------------------------------------------
(* _ReplaceJSONFields(json, translation, prefix).  A frame of the call     *)
(* stack is one call on a list or a dict; a call on anything else returns  *)
(* at once.  For a dict, todo is the set of keys that lie in table slots   *)
(* the iterator has not passed, used the size the iterator was made with   *)
(* and oldDummies tells whether the table held dummies before the loop.    *)

Frame(h, a, prefix) ==
  LET o == h[a]
      isDict == o.t = "dict"
  IN [obj |-> a, prefix |-> prefix, kind |-> o.t, i |-> 1,
      todo |-> IF isDict THEN DOMAIN o.d ELSE {},
      used |-> IF isDict THEN Cardinality(DOMAIN o.d) ELSE 0,
      oldDummies |-> IF isDict THEN o.fill > Cardinality(DOMAIN o.d) ELSE FALSE]

Call(st, h, v, prefix) ==
  IF v.t = "ref" THEN Append(st, Frame(h, v.a, prefix)) ELSE st

(* prefix + field_name, and the prefix handed to the recursive call *)
FullKey(prefix, field_name) == prefix \o field_name

(* the prefix made of the new name of the parent *)
ChildPrefixRenamed(prefix, field_name, new_key) == (prefix \o new_key) \o "."

ChildPrefix(prefix, field_name, new_key) == FullKey(prefix, field_name) \o "."

(* One pass of the loop body for field_name: the possible states of the    *)
(* dict object and of the iterator after it.  The key set changes while    *)
(* the dict is being iterated, so which keys the iterator still yields     *)
(* depends on the slots the hash function gives them: a new key may land   *)
(* before or after the iterator's position, and a rebuilt table places     *)
(* every key anew.                                                         *)
LoopBody(top, o, field_name) ==
  LET full_key == FullKey(top.prefix, field_name)
      rest == top.todo \ {field_name}
      out(o1, todo, old, renamed) ==
        [o |-> o1, todo |-> todo, oldDummies |-> old, renamed |-> renamed]
  IN IF full_key \notin DOMAIN KEY_TRANSLATION
     THEN {out(o, rest, top.oldDummies, FALSE)}
     ELSE LET new_key == KEY_TRANSLATION[full_key]
              again == IF top.oldDummies THEN {rest, rest \cup {new_key}} ELSE {rest}
          IN IF new_key = field_name
             THEN {out(ReplaceKey(o, field_name, new_key, FALSE), td, top.oldDummies, TRUE) :
                     td \in again}
             ELSE IF new_key \in DOMAIN o.d
             THEN {out(ReplaceKey(o, field_name, new_key, FALSE), rest, top.oldDummies, TRUE)}
             ELSE LET reuse == ReplaceKey(o, field_name, new_key, FALSE)
                      fresh == ReplaceKey(o, field_name, new_key, TRUE)
                  IN {out(reuse, td, top.oldDummies, TRUE) : td \in again}
                     \cup (IF fresh.size # o.size
                           THEN {out(fresh, td, FALSE, TRUE) : td \in SUBSET DOMAIN fresh.d}
                           ELSE {out(fresh, td, top.oldDummies, TRUE) :
                                   td \in {rest, rest \cup {new_key}}})

Top == stack[Len(stack)]

(* for field_name in json: ... (json a dict) *)
RJF_DictNext ==
  /\ pc = "rename" /\ stack # <<>>
  /\ Top.kind = "dict"
  /\ Cardinality(DOMAIN heap[Top.obj].d) = Top.used
  /\ \E field_name \in Top.todo :
       \E r \in LoopBody(Top, heap[Top.obj], field_name) :
         LET n == Len(stack)
             h1 == [heap EXCEPT ![Top.obj] = r.o]
             st1 == [stack EXCEPT ![n].todo = r.todo, ![n].oldDummies = r.oldDummies]
             full_key == FullKey(Top.prefix, field_name)
         IN /\ heap' = h1
            /\ stack' = IF r.renamed
                        THEN Call(st1, h1, r.o.d[KEY_TRANSLATION[full_key]],
                                  ChildPrefix(Top.prefix, field_name, KEY_TRANSLATION[full_key]))
                        ELSE st1
  /\ UNCHANGED <<pc, items, cur, pass, orig, snap, asmVars, engVars, report_csv>>

(* for item in json: _ReplaceJSONFields(item, translation, prefix) *)
RJF_ListNext ==
  /\ pc = "rename" /\ stack # <<>>
  /\ Top.kind = "list"
  /\ Top.i <= Len(heap[Top.obj].l)
  /\ stack' = Call([stack EXCEPT ![Len(stack)].i = @ + 1], heap,
                   heap[Top.obj].l[Top.i], Top.prefix)
  /\ UNCHANGED <<pc, heap, items, cur, pass, orig, snap, asmVars, engVars, report_csv>>

(* the loop ends and the call returns *)
RJF_Return ==
  /\ pc = "rename" /\ stack # <<>>
  /\ \/ Top.kind = "list" /\ Top.i > Len(heap[Top.obj].l)
     \/ /\ Top.kind = "dict" /\ Top.todo = {}
        /\ Cardinality(DOMAIN heap[Top.obj].d) = Top.used
  /\ stack' = SubSeq(stack, 1, Len(stack) - 1)
  /\ UNCHANGED <<pc, heap, items, cur, pass, orig, snap, asmVars, engVars, report_csv>>

(* RuntimeError: dictionary changed size during iteration *)
RJF_Raise ==
  /\ pc = "rename" /\ stack # <<>>
  /\ Top.kind = "dict"
  /\ Cardinality(DOMAIN heap[Top.obj].d) # Top.used
  /\ pc' = "error"
  /\ raised' = "RuntimeError"
  /\ UNCHANGED <<heap, items, cur, stack, pass, orig, snap, translated_item, rm,
                 report, ssl, engVars, report_csv>>

ReplaceJSONFields == RJF_DictNext \/ RJF_ListNext \/ RJF_Return \/ RJF_Raise

----------------------------------------------------------------------------
(* The rename pass on its own: an item of the listing is renamed, and the  *)
(* result is renamed once more.                                            *)

UniverseValue(k) ==
  CASE k = "corrections" ->
         JList(<<JDict([reason |-> JStr("VENDOR_IDS"),
                        details |-> JList(<<JStr("d1"), JStr("d2")>>)])>>)
    [] k = "disapprovalReasons" ->
         JList(<<JDict([reason |-> JStr(INVALID_SSL_DECLARATION),
                        details |-> JList(<<JStr("d")>>)])>>)
    [] k = "filteringReasons" ->
         JDict([date |-> JStr("1900-01-01"),
                reasons |-> JList(<<JDict([filteringCount |-> JInt(200),
                                           filteringStatus |-> JInt(1)])>>)])
    [] k = "advertiserId" -> JList(<<JStr("12345")>>)
    [] k = "advertiser_id" -> JList(<<JStr("999")>>)
    [] k = "clickThroughUrl" -> JList(<<JStr("http://www.test.com/")>>)
    [] k = "accountId" -> JInt(123456789)
    [] k = "productCategories" -> JList(<<JInt(10004)>>)
    [] k = "height" -> JInt(250)
    [] k = "HTMLSnippet" -> JStr("<a>Hi there!</a>")
    [] k = "servingRestrictions" ->
         JList(<<JDict([reason |-> JStr("PENDING"),
                        height |-> JInt(1),
                        disapprovalReasons |->
                          JList(<<JDict([reason |-> JStr("X")])>>)])>>)

(* keys whose values the pass descends into through a dict *)
NestedKeys == {"corrections", "disapprovalReasons", "filteringReasons"}

UniverseKeys ==
  NestedKeys \cup {"HTMLSnippet", "accountId", "advertiserId", "advertiser_id",
                   "clickThroughUrl", "productCategories", "height",
                   "servingRestrictions"}

RenameInputs ==
  {JDict([k \in K |-> UniverseValue(k)]) :
     K \in {X \in SUBSET UniverseKeys :
              /\ Cardinality(X) <= MaxKeys
              /\ X \cap NestedKeys # {} => Cardinality(X) <= MaxNestedKeys}}

ItemAddr(j) == <<[i |-> j]>>

(* the parts of the state a specification does not use *)
AsmIdle ==
  translated_item = NoValue /\ rm = 0 /\ report = <<>> /\ ssl = NoValue /\ raised = ""
EngineIdle ==
  /\ input = NoValue /\ enum_mode = FALSE /\ full_mode = FALSE
  /\ decoded = NoValue /\ encoded = NoValue
CsvIdle == report_csv = NoValue
RenameIdle == stack = <<>> /\ pass = 1 /\ snap = NoValue

InitRename ==
  \E item \in RenameInputs :
    /\ heap = HeapOf(item, ItemAddr(1))
    /\ items = <<Ref(ItemAddr(1))>>
    /\ cur = 1
    /\ stack = Call(<<>>, HeapOf(item, ItemAddr(1)), Ref(ItemAddr(1)), "")
    /\ pass = 1
    /\ orig = <<item>>
    /\ snap = NoValue
    /\ pc = "rename"
    /\ AsmIdle /\ EngineIdle /\ CsvIdle

SecondPass ==
  /\ pc = "rename" /\ stack = <<>> /\ pass = 1
  /\ pass' = 2
  /\ snap' = Deref(heap, items[cur])
  /\ stack' = Call(<<>>, heap, items[cur], "")
  /\ UNCHANGED <<pc, heap, items, cur, orig, asmVars, engVars, report_csv>>

RenameDone ==
  /\ pc = "rename" /\ stack = <<>> /\ pass = 2
  /\ pc' = "done"
  /\ UNCHANGED <<heap, items, cur, stack, pass, orig, snap, asmVars, engVars, report_csv>>

NextRename == ReplaceJSONFields \/ SecondPass \/ RenameDone

SpecRename == InitRename /\ [][NextRename]_vars

----------------------------------------------------------------------------
(* Schemas.  The message classes come from snippet_status_report_pb2 and   *)
(* the protobuf runtime; a message type is its list of field descriptors   *)
(* in declared order.  None of the types is a message set, and none has a  *)
(* floating-point field.                                                   *)

Fld(name, type, label) ==
  [name |-> name, type |-> type, label |-> label, message_type |-> "", enum_type |-> ""]
MsgFld(name, label, T) ==
  [name |-> name, type |-> "MESSAGE", label |-> label, message_type |-> T, enum_type |-> ""]
EnumFld(name, label, E) ==
  [name |-> name, type |-> "ENUM", label |-> label, message_type |-> "", enum_type |-> E]

Schema ==
  [ SnippetStatusItem |->
      << Fld("DEPRECATED_snippet_id", "INT64", "optional"),
         Fld("buyer_creative_id", "STRING", "optional"),
         EnumFld("source", "optional", "Source"),
         Fld("advertiser_id", "STRING", "repeated"),
         Fld("click_through_url", "STRING", "repeated"),
         Fld("attribute", "INT32", "repeated"),
         Fld("height", "INT32", "optional"),
         Fld("width", "INT32", "optional"),
         Fld("detected_product_category", "INT32", "repeated"),
         MsgFld("disapproval_reason", "repeated", "DisapprovalReason"),
         MsgFld("snippet_correction", "repeated", "SnippetCorrection"),
         MsgFld("snippet_filtering", "optional", "SnippetFiltering"),
         Fld("is_ssl_capable", "BOOL", "optional") >>,
    SnippetCorrection |->
      << EnumFld("type", "optional", "CorrectionType"),
         Fld("detail", "STRING", "repeated") >>,
    DisapprovalReason |->
      << EnumFld("reason", "optional", "DisapprovalType"),
         Fld("detail", "STRING", "repeated") >>,
    SnippetFiltering |->
      << Fld("date", "STRING", "optional"),
         MsgFld("item", "repeated", "SnippetFilteringItem") >>,
    SnippetFilteringItem |->
      << Fld("filtering_status", "INT32", "optional"),
         Fld("filtering_count", "INT64", "optional") >>,
    (* a schema that exercises every kind of field of the mapping engine *)
    Record |->
      << Fld("id", "INT32", "required"),
         Fld("name", "STRING", "optional"),
         Fld("flag", "BOOL", "optional"),
         Fld("data", "BYTES", "optional"),
         EnumFld("kind", "optional", "Kind"),
         MsgFld("sub", "optional", "Part"),
         MsgFld("opts", "optional", "Labels"),
         Fld("nums", "INT64", "repeated"),
         MsgFld("parts", "repeated", "Part") >>,
    Part |->
      << Fld("key", "STRING", "required"),
         Fld("count", "UINT32", "optional") >>,
    Labels |->
      << Fld("label", "STRING", "repeated") >> ]

(* enum_type.values_by_name *)
Enums ==
  [ Source |-> [UNKNOWN_SOURCE |-> 0, RTB |-> 1],
    CorrectionType |-> [VENDOR_IDS |-> 1, SSL_ATTRIBUTE |-> 2, FLASH_ATTRIBUTE |-> 3],
    DisapprovalType |-> [PROBLEM_WITH_CLICK_MACRO |-> 1, INVALID_SSL_DECLARATION |-> 2],
    Kind |-> [ALPHA |-> 1, BETA |-> 2] ]

----------------------------------------------------------------------------
(* Python conversions used by the coercion tables *)

Ok(v) == [ok |-> TRUE, v |-> v]
Raise(err, what) == [ok |-> FALSE, err |-> err, what |-> what]

JBool(b) == [t |-> "bool", b |-> b]
JNull == [t |-> "null"]

Digits == "0123456789"
Char(s, j) == SubSeq(s, j, j)
IsDigit(c) == \E d \in 1..10 : Char(Digits, d) = c
DigitValue(c) == (CHOOSE d \in 1..10 : Char(Digits, d) = c) - 1

RECURSIVE ParseNat(_, _, _)
ParseNat(s, j, acc) ==
  IF j > Len(s) THEN acc ELSE ParseNat(s, j + 1, 10 * acc + DigitValue(Char(s, j)))

RECURSIVE NatStr(_)
NatStr(n) ==
  IF n < 10 THEN Char(Digits, n + 1) ELSE NatStr(n \div 10) \o Char(Digits, (n % 10) + 1)

IntStr(n) == IF n < 0 THEN "-" \o NatStr(-n) ELSE NatStr(n)

(* int(x), long(x) *)
PyInt(v) ==
  CASE v.t = "int" -> Ok(v.n)
    [] v.t = "bool" -> Ok(IF v.b THEN 1 ELSE 0)
    [] v.t = "str" ->
         LET neg == Len(v.s) > 0 /\ Char(v.s, 1) = "-"
             body == IF neg THEN SubSeq(v.s, 2, Len(v.s)) ELSE v.s
         IN IF Len(body) > 0 /\ \A j \in 1..Len(body) : IsDigit(Char(body, j))
            THEN Ok(IF neg THEN -ParseNat(body, 1, 0) ELSE ParseNat(body, 1, 0))
            ELSE Raise("ValueError", v.s)
    [] OTHER -> Raise("TypeError", v.t)

(* bool(x) *)
PyBool(v) ==
  CASE v.t = "bool" -> Ok(v.b)
    [] v.t = "int" -> Ok(v.n # 0)
    [] v.t = "str" -> Ok(v.s # "")
    [] v.t = "null" -> Ok(FALSE)
    [] v.t = "list" -> Ok(v.l # <<>>)
    [] OTHER -> Ok(DOMAIN v.d # {})

(* unicode(x) *)
PyUnicode(v) ==
  CASE v.t = "str" -> Ok(v.s)
    [] v.t = "int" -> Ok(IntStr(v.n))
    [] v.t = "bool" -> Ok(IF v.b THEN "True" ELSE "False")
    [] v.t = "null" -> Ok("None")
    [] OTHER -> Raise("Unmodelled", v.t)

(* x.encode('string_escape') on printable text, quotes, backslashes and    *)
(* the control characters \t \n \r                                         *)
EscapeChar(c) ==
  CASE c = "\\" -> "\\\\"
    [] c = "'" -> "\\'"
    [] c = "\n" -> "\\n"
    [] c = "\t" -> "\\t"
    [] c = "\r" -> "\\r"
    [] OTHER -> c

RECURSIVE StringEscapeEncode(_)
StringEscapeEncode(b) ==
  IF b = "" THEN "" ELSE EscapeChar(Char(b, 1)) \o StringEscapeEncode(SubSeq(b, 2, Len(b)))

(* x.decode('string_escape'): the escapes above and \"; an unknown escape  *)
(* is kept as it is written, a trailing backslash is an error (hex and     *)
(* octal escapes are not modelled).                                        *)
UnescapeChar(c) ==
  CASE c = "\\" -> "\\"
    [] c = "'" -> "'"
    [] c = "\"" -> "\""
    [] c = "n" -> "\n"
    [] c = "t" -> "\t"
    [] c = "r" -> "\r"
    [] OTHER -> "\\" \o c

RECURSIVE StringEscapeDecode(_, _)
StringEscapeDecode(s, acc) ==
  IF s = "" THEN Ok(acc)
  ELSE IF Char(s, 1) # "\\"
  THEN StringEscapeDecode(SubSeq(s, 2, Len(s)), acc \o Char(s, 1))
  ELSE IF Len(s) = 1 THEN Raise("ValueError", "Trailing \\ in string")
  ELSE StringEscapeDecode(SubSeq(s, 3, Len(s)), acc \o UnescapeChar(Char(s, 2)))

IntTypes ==
  {"INT64", "UINT64", "INT32", "FIXED32", "FIXED64", "UINT32", "ENUM",
   "SFIXED32", "SFIXED64", "SINT32", "SINT64"}

(* _js2ftype[type](v) *)
Js2Ftype(type, v) ==
  CASE type \in IntTypes -> PyInt(v)
    [] type = "BOOL" -> PyBool(v)
    [] type = "STRING" -> PyUnicode(v)
    [] type = "BYTES" ->
         IF v.t = "str" THEN StringEscapeDecode(v.s, "") ELSE Raise("AttributeError", v.t)

(* _ftype2js[type](x) for the scalar types *)
Ftype2Js(type, x) ==
  CASE type \in IntTypes -> JInt(x)
    [] type = "BOOL" -> JBool(x)
    [] type = "STRING" -> JStr(x)
    [] type = "BYTES" -> JStr(StringEscapeEncode(x))

(* a name lookup without the int() fallback *)
EnumNameToNumberStrict(field, js_value) ==
  IF js_value.t = "str" /\ js_value.s \in DOMAIN Enums[field.enum_type]
  THEN Ok(Enums[field.enum_type][js_value.s])
  ELSE Raise("KeyError", js_value.t)

(* _EnumNameToNumber(field)(js_value) *)
EnumNameToNumber(field, js_value) ==
  LET values_by_name == Enums[field.enum_type]
  IN IF js_value.t = "str" /\ js_value.s \in DOMAIN values_by_name
     THEN Ok(values_by_name[js_value.s])
     ELSE PyInt(js_value)

(* _EnumNumberToName(field)(js_value) *)
EnumNumberToName(field, js_value) ==
  LET values_by_name == Enums[field.enum_type]
      names == {n \in DOMAIN values_by_name : values_by_name[n] = js_value}
  IN IF names # {} THEN JStr(CHOOSE n \in names : TRUE) ELSE JInt(js_value)

----------------------------------------------------------------------------
(* Messages.  A message is the function from the names of its present      *)
(* fields to their values (what ListFields() lists): a scalar that was     *)
(* set, a non-empty repeated field, a nested message marked present.       *)

IsMessageField(field) == field.type \in {"MESSAGE", "GROUP"}

RECURSIVE FindInitializationErrors(_, _)
FindInitializationErrors(T, pb) ==
  LET RECURSIVE of(_)
      of(i) ==
        IF i > Len(Schema[T]) THEN <<>>
        ELSE LET field == Schema[T][i]
                 sub(m) == FindInitializationErrors(field.message_type, m)
                 RECURSIVE elems(_)
                 elems(j) ==
                   IF j > Len(pb[field.name]) THEN <<>>
                   ELSE [e \in 1..Len(sub(pb[field.name][j])) |->
                           (((field.name \o "[") \o NatStr(j - 1)) \o "].")
                             \o sub(pb[field.name][j])[e]]
                        \o elems(j + 1)
                 here ==
                   IF field.name \notin DOMAIN pb
                   THEN IF field.label = "required" THEN <<field.name>> ELSE <<>>
                   ELSE IF ~IsMessageField(field) THEN <<>>
                   ELSE IF field.label = "repeated" THEN elems(1)
                   ELSE [e \in 1..Len(sub(pb[field.name])) |->
                           (field.name \o ".") \o sub(pb[field.name])[e]]
             IN here \o of(i + 1)
  IN of(1)

----------------------------------------------------------------------------
(* json2pb(pb, js, use_enum_str_values) on an empty message of type T.     *)
(* js is a tree.  The result is Ok(message) or the exception raised.       *)

(* the type has a converter: a message or group, an enum, or an entry of   *)
(* _js2ftype *)
Js2FtypeHas(field) ==
  IsMessageField(field)
    \/ field.type \in IntTypes \cup {"BOOL", "STRING", "BYTES"}

(* ftype(v) *)
ScalarFromJs(field, v, use_enum_str_values) ==
  IF use_enum_str_values /\ field.type = "ENUM"
  THEN EnumNameToNumber(field, v)
  ELSE Js2Ftype(field.type, v)

(* the repeated field with x at its front *)
PrependElement(elems, x) == <<x>> \o elems

(* pb_value.append / pb_value.add(): the repeated field with x at its end *)
AppendElement(elems, x) == Append(elems, x)

(* setattr(pb, field.name, x) for a scalar; a nested message that was      *)
(* filled in place is present only if something was set in it              *)
SetField(pb, field, x) ==
  IF IsMessageField(field) /\ DOMAIN x = {}
  THEN pb
  ELSE [n \in DOMAIN pb \cup {field.name} |-> IF n = field.name THEN x ELSE pb[n]]

SetRepeated(pb, field, elems) ==
  IF elems = <<>> THEN pb
  ELSE [n \in DOMAIN pb \cup {field.name} |-> IF n = field.name THEN elems ELSE pb[n]]

(* the message returned without the check *)
ReturnUnchecked(T, pb) == Ok(pb)

(* init_errors = pb.FindInitializationErrors(); raise or return pb *)
CheckInitialized(T, pb) ==
  LET init_errors == FindInitializationErrors(T, pb)
  IN IF init_errors # <<>>
     THEN Raise("RequiredFieldMissing", init_errors)
     ELSE Ok(pb)

RECURSIVE json2pb(_, _, _)
json2pb(T, js, use_enum_str_values) ==
  LET RECURSIVE fields(_, _)
      fields(i, pb) ==
        IF i > Len(Schema[T]) THEN CheckInitialized(T, pb)
        ELSE LET field == Schema[T][i]
                 one(v) ==
                   IF IsMessageField(field)
                   THEN json2pb(field.message_type, v, use_enum_str_values)
                   ELSE ScalarFromJs(field, v, use_enum_str_values)
                 RECURSIVE each(_, _)
                 each(j, elems) ==
                   IF j > Len(js.d[field.name].l) THEN Ok(elems)
                   ELSE LET r == one(js.d[field.name].l[j])
                        IN IF r.ok THEN each(j + 1, AppendElement(elems, r.v)) ELSE r
             IN IF field.name \notin DOMAIN js.d THEN fields(i + 1, pb)
                ELSE IF ~Js2FtypeHas(field)
                THEN Raise("ParseError", field.name)
                ELSE IF field.label = "repeated"
                THEN LET r == each(1, <<>>)
                     IN IF r.ok THEN fields(i + 1, SetRepeated(pb, field, r.v)) ELSE r
                ELSE LET r == one(js.d[field.name])
                     IN IF r.ok THEN fields(i + 1, SetField(pb, field, r.v)) ELSE r
  IN fields(1, EmptyFcn)

----------------------------------------------------------------------------
(* pb2json(pb, use_enum_str_values, all_fields) on a message of type T *)

(* getattr(pb, f.name) of a field that is not present *)
DefaultValue(field) ==
  IF field.label = "repeated" THEN <<>>
  ELSE CASE IsMessageField(field) -> EmptyFcn
         [] field.type = "BOOL" -> FALSE
         [] field.type \in {"STRING", "BYTES"} -> ""
         [] OTHER -> 0

RECURSIVE pb2json(_, _, _, _)
pb2json(T, pb, use_enum_str_values, all_fields) ==
  LET RECURSIVE fields(_, _)
      fields(i, js) ==
        IF i > Len(Schema[T])
        THEN LET init_errors == FindInitializationErrors(T, pb)
             IN IF init_errors # <<>>
                THEN Raise("RequiredFieldMissing", init_errors)
                ELSE Ok(JDict(js))
        ELSE LET field == Schema[T][i]
                 present == field.name \in DOMAIN pb
                 value == IF present THEN pb[field.name] ELSE DefaultValue(field)
                 with(x) == [n \in DOMAIN js \cup {field.name} |->
                               IF n = field.name THEN x ELSE js[n]]
                 (* _Pb2JsonConverter(field, ...)(x) *)
                 ftype(x) ==
                   IF use_enum_str_values /\ field.type = "ENUM"
                   THEN Ok(EnumNumberToName(field, x))
                   ELSE IF IsMessageField(field)
                   THEN pb2json(field.message_type, x, use_enum_str_values, all_fields)
                   ELSE Ok(Ftype2Js(field.type, x))
                 RECURSIVE each(_, _)
                 each(j, out) ==
                   IF j > Len(value) THEN Ok(JList(out))
                   ELSE LET r == ftype(value[j])
                        IN IF r.ok THEN each(j + 1, Append(out, r.v)) ELSE r
             IN IF ~all_fields /\ ~present THEN fields(i + 1, js)
                ELSE IF all_fields /\ field.label = "optional" /\ ~present
                THEN fields(i + 1, with(JNull))
                ELSE LET r == IF field.label = "repeated" THEN each(1, <<>>) ELSE ftype(value)
                     IN IF r.ok THEN fields(i + 1, with(r.v)) ELSE r
  IN fields(1, EmptyFcn)

----------------------------------------------------------------------------
(* The mapping engine on its own: json2pb on a mapping, and pb2json on a   *)
(* message followed by json2pb on what it returned.                        *)

MaxRepeated == 2

(* a message from (name, value, present) triples; an empty repeated field  *)
(* is not present                                                          *)
Message(S) ==
  LET P == {p \in S : p[3]}
  IN [n \in {p[1] : p \in P} |-> (CHOOSE p \in P : p[1] = n)[2]]

(* Part messages with every field set *)
Parts == {[key |-> k, count |-> c] : k \in {"k"}, c \in {0, 3}}

(* Labels messages; the first is present with nothing set in it *)
LabelsMessages == {EmptyFcn, [label |-> <<"x">>], [label |-> <<"x", "y">>]}

(* Record messages with every optional field set *)
RecordMessages ==
  {Message({<<"id", 5, TRUE>>, <<"name", "n", TRUE>>, <<"flag", flag, TRUE>>,
            <<"data", data, TRUE>>, <<"kind", kind, TRUE>>, <<"sub", sub, TRUE>>,
            <<"opts", opts, TRUE>>, <<"nums", nums, nums # <<>> >>, <<"parts", parts, parts # <<>> >>}) :
     flag \in BOOLEAN, data \in {"", "a'\n\\b"}, kind \in {1, 2, 7}, sub \in Parts,
     opts \in LabelsMessages, nums \in SeqsUpTo({1, 2}, MaxRepeated),
     parts \in SeqsUpTo(Parts, MaxRepeated)}

(* mappings as a JSON parser gives them, some with a required field        *)
(* missing, a value that does not convert or a key the schema lacks        *)
RecordMappings ==
  {DictOf({<<"id", id>>, <<"name", name>>, <<"kind", kind>>, <<"sub", sub>>,
           <<"opts", opts>>, <<"nums", nums>>, <<"parts", parts>>, <<"extra", extra>>}) :
     id \in {NoValue, JInt(5), JStr("12")},
     name \in {NoValue, JStr("n")},
     kind \in {NoValue, JStr("BETA"), JStr("GAMMA"), JInt(7), JStr("7")},
     sub \in {NoValue, JDict(EmptyFcn), DictOf({<<"key", JStr("k")>>}),
              DictOf({<<"key", JStr("k")>>, <<"count", JStr("x")>>})},
     opts \in {NoValue, JDict(EmptyFcn), DictOf({<<"label", JList(<<JStr("x"), JStr("y")>>)>>})},
     nums \in {NoValue, JList(<<>>), JList(<<JInt(2), JStr("1")>>), JList(<<JInt(1), JStr("x")>>)},
     parts \in {NoValue, JList(<<>>),
                JList(<<DictOf({<<"key", JStr("a")>>}),
                        DictOf({<<"key", JStr("b")>>, <<"count", JInt(1)>>})>>),
                JList(<<DictOf({<<"key", JStr("a")>>}), DictOf({<<"count", JInt(1)>>})>>)},
     extra \in {NoValue, JInt(1)}}

InitDecode ==
  /\ \/ pc = "js" /\ input \in RecordMappings /\ full_mode = FALSE
     \/ pc = "pb" /\ input \in RecordMessages /\ full_mode \in BOOLEAN
  /\ enum_mode \in BOOLEAN
  /\ decoded = NoValue /\ encoded = NoValue
  /\ heap = EmptyFcn /\ items = <<>> /\ cur = 0 /\ orig = <<>>
  /\ AsmIdle /\ RenameIdle /\ CsvIdle

(* pb2json(pb, use_enum_str_values, all_fields) *)
Pb2Json ==
  /\ pc = "pb"
  /\ encoded' = pb2json("Record", input, enum_mode, full_mode)
  /\ pc' = "encoded"
  /\ UNCHANGED <<heap, items, cur, stack, pass, orig, snap, asmVars, input, enum_mode,
                 full_mode, decoded, report_csv>>

(* json2pb(pb, js, use_enum_str_values) on an empty message *)
Json2Pb ==
  /\ \/ pc = "js" /\ pc' = "js_decoded"
        /\ decoded' = json2pb("Record", input, enum_mode)
     \/ pc = "encoded" /\ encoded.ok /\ pc' = "pb_decoded"
        /\ decoded' = json2pb("Record", encoded.v, enum_mode)
  /\ UNCHANGED <<heap, items, cur, stack, pass, orig, snap, asmVars, input, enum_mode,
                 full_mode, encoded, report_csv>>

NextDecode == Pb2Json \/ Json2Pb

SpecDecode == InitDecode /\ [][NextDecode]_vars

----------------------------------------------------------------------------
(* The per-item corrections of generate_ssr.py.  item is a dict object, h  *)
(* the heap its lists and entries live on.                                 *)

(* item.get(k, []) as a tree *)
ItemGet(h, item, k) == IF k \in DOMAIN item.d THEN Deref(h, item.d[k]) ELSE JList(<<>>)

(* d.get(k, None) on a tree *)
DictGet(d, k) == IF k \in DOMAIN d.d THEN d.d[k] ELSE JNull

(* _IsSSLCapable without its third test *)
IsSSLCapableIgnoringCorrections(h, item) ==
  LET attribute == ItemGet(h, item, "attribute").l
      disapproval_reason == ItemGet(h, item, "disapproval_reason").l
  IN IF ~\E j \in 1..Len(attribute) : attribute[j] = JInt(RICH_MEDIA_CAPABILITY_SSL)
     THEN FALSE
     ELSE IF \E j \in 1..Len(disapproval_reason) :
               DictGet(disapproval_reason[j], "reason") = JStr(INVALID_SSL_DECLARATION)
     THEN FALSE
     ELSE TRUE

(* _IsSSLCapable(item) *)
IsSSLCapable(h, item) ==
  LET attribute == ItemGet(h, item, "attribute").l
      disapproval_reason == ItemGet(h, item, "disapproval_reason").l
      snippet_correction == ItemGet(h, item, "snippet_correction").l
  IN IF ~\E j \in 1..Len(attribute) : attribute[j] = JInt(RICH_MEDIA_CAPABILITY_SSL)
     THEN FALSE
     ELSE IF \E j \in 1..Len(disapproval_reason) :
               DictGet(disapproval_reason[j], "reason") = JStr(INVALID_SSL_DECLARATION)
     THEN FALSE
     ELSE IF \E j \in 1..Len(snippet_correction) :
               DictGet(snippet_correction[j], "type") = JStr(SSL_ATTRIBUTE)
     THEN FALSE
     ELSE TRUE

(* list.remove(x): the list without its first element equal to x *)
ListRemove(h, l, x) ==
  LET j == CHOOSE n \in 1..Len(l) :
             /\ Deref(h, l[n]) = Deref(h, x)
             /\ \A m \in 1..(n - 1) : Deref(h, l[m]) # Deref(h, x)
  IN SubSeq(l, 1, j - 1) \o SubSeq(l, j + 1, Len(l))

(* the item the loop of GenerateSnippetStatusReportPBObject is working on *)
Item == heap[items[cur].a]
HasCorrections == "snippet_correction" \in DOMAIN Item.d
(* item.get('snippet_correction', []) *)
Corrections == IF HasCorrections THEN heap[Item.d["snippet_correction"].a].l ELSE <<>>

(* _RemoveFlashlessAttributeCorrection(item): one turn of the loop.  The   *)
(* list iterator is an index into the list that remove() shortens.         *)
RFAC_Next ==
  /\ pc = "remove" /\ rm <= Len(Corrections)
  /\ LET snippet_correction == Corrections[rm]
     IN heap' = IF DictGet(Deref(heap, snippet_correction), "type") = JStr(FLASHLESS_ATTRIBUTE)
                THEN [heap EXCEPT ![Item.d["snippet_correction"].a] =
                        JList(ListRemove(heap, Corrections, snippet_correction))]
                ELSE heap
  /\ rm' = rm + 1
  /\ UNCHANGED <<pc, items, cur, stack, pass, orig, snap, translated_item, report,
                 ssl, raised, engVars, report_csv>>

RFAC_Return ==
  /\ pc = "remove"
  /\ rm > Len(Corrections)
  /\ pc' = "decode"
  /\ UNCHANGED <<heap, items, cur, stack, pass, orig, snap, asmVars, engVars, report_csv>>

RemoveFlashlessAttributeCorrection == RFAC_Next \/ RFAC_Return

----------------------------------------------------------------------------
(* The two item functions on their own, on items in translated form.       *)

MaxCorr == 3
MaxItems == 2

Entry(k, v) == JDict((k :> JStr(v)))

TranslatedCorrections ==
  {Entry("type", FLASHLESS_ATTRIBUTE), Entry("type", SSL_ATTRIBUTE),
   Entry("type", "VENDOR_IDS"), JDict(("detail" :> JList(<<JStr("d")>>)))}

TranslatedItems ==
  {DictOf({<<"attribute", a>>, <<"disapproval_reason", d>>, <<"snippet_correction", c>>}) :
     a \in {NoValue, JList(<<>>), JList(<<JInt(RICH_MEDIA_CAPABILITY_SSL)>>),
            JList(<<JInt(1), JInt(RICH_MEDIA_CAPABILITY_SSL)>>), JList(<<JInt(1)>>)},
     d \in {NoValue, JList(<<Entry("reason", INVALID_SSL_DECLARATION)>>),
            JList(<<Entry("reason", "PROBLEM_WITH_CLICK_MACRO"),
                    Entry("reason", INVALID_SSL_DECLARATION)>>),
            JList(<<Entry("reason", "PROBLEM_WITH_CLICK_MACRO")>>),
            JList(<<JDict(("detail" :> JList(<<JStr("d")>>)))>>)},
     c \in {NoValue} \cup {JList(l) : l \in SeqsUpTo(TranslatedCorrections, MaxCorr)}}

InitItem ==
  \E item \in TranslatedItems :
    /\ heap = HeapOf(item, ItemAddr(1))
    /\ items = <<Ref(ItemAddr(1))>>
    /\ cur = 1
    /\ orig = <<item>>
    /\ pc = "test"
    /\ translated_item = NoValue /\ rm = 0 /\ report = <<>> /\ ssl = NoValue
    /\ raised = ""
    /\ RenameIdle /\ EngineIdle /\ CsvIdle

TestIsSSLCapable ==
  /\ pc = "test"
  /\ ssl' = JBool(IsSSLCapable(heap, Item))
  /\ rm' = 1
  /\ pc' = "remove"
  /\ UNCHANGED <<heap, items, cur, stack, pass, orig, snap, translated_item, report,
                 raised, engVars, report_csv>>

NextItem == TestIsSSLCapable \/ RemoveFlashlessAttributeCorrection

SpecItem == InitItem /\ [][NextItem]_vars

----------------------------------------------------------------------------
(* GenerateSnippetStatusReportPBObject(response) *)

FieldNamed(T, name) ==
  Schema[T][CHOOSE i \in 1..Len(Schema[T]) : Schema[T][i].name = name]

(* a new empty message put at the front *)
AddSnippetStatusAtFront(r) == <<EmptyFcn>> \o r

(* a copy that copies the containers too *)
ItemDeepCopy(h, item) == NewDict([k \in DOMAIN item.d |-> Deref(h, item.d[k])])

(* a copy with a correction list of its own *)
ItemCopyOwnCorrections(h, item) ==
  NewDict([k \in DOMAIN item.d |->
             IF k = "snippet_correction" THEN Deref(h, item.d[k]) ELSE item.d[k]])

(* report.snippet_status.add(): a new empty message at the end *)
AddSnippetStatus(r) == Append(r, EmptyFcn)

(* item.copy(): a new dict with the same values, containers shared *)
ItemCopy(h, item) == NewDict(item.d)

(* a dict object as a tree *)
ObjTree(h, o) == JDict([k \in DOMAIN o.d |-> Deref(h, o.d[k])])

(* a loop head that hands the rename a copy of the item and leaves the     *)
(* response alone                                                          *)
GenNextOnCopy ==
  /\ pc = "loop" /\ cur < Len(items)
  /\ cur' = cur + 1
  /\ report' = AddSnippetStatus(report)
  /\ LET copy == <<[k |-> "copy"], [i |-> cur + 1]>>
         h1 == heap @@ HeapOf(Deref(heap, items[cur + 1]), copy)
     IN /\ heap' = h1
        /\ items' = [items EXCEPT ![cur + 1] = Ref(copy)]
        /\ stack' = Call(<<>>, h1, Ref(copy), "")
  /\ pc' = "rename"
  /\ UNCHANGED <<pass, orig, snap, translated_item, rm, ssl, raised, engVars, report_csv>>

(* for item in response['items']: snippet_status = report.snippet_status.add() *)
(* and the call of _ReplaceJSONFields(item, KEY_TRANSLATION, '')             *)
GenNext ==
  /\ pc = "loop" /\ cur < Len(items)
  /\ cur' = cur + 1
  /\ report' = AddSnippetStatus(report)
  /\ stack' = Call(<<>>, heap, items[cur + 1], "")
  /\ pc' = "rename"
  /\ UNCHANGED <<heap, items, pass, orig, snap, translated_item, rm, ssl, raised,
                 engVars, report_csv>>

(* translated_item = item.copy() and the call of the removal *)
GenCopy ==
  /\ pc = "rename" /\ stack = <<>>
  /\ translated_item' = ItemCopy(heap, Item)
  /\ rm' = 1
  /\ pc' = "remove"
  /\ UNCHANGED <<heap, items, cur, stack, pass, orig, snap, report, ssl, raised,
                 engVars, report_csv>>

(* protobuf_json.json2pb(snippet_status, translated_item, True) *)
GenDecode ==
  /\ pc = "decode"
  /\ LET r == json2pb("SnippetStatusItem", ObjTree(heap, translated_item), TRUE)
     IN IF r.ok
        THEN /\ report' = [report EXCEPT ![Len(report)] = r.v]
             /\ pc' = "fill"
             /\ UNCHANGED raised
        ELSE /\ pc' = "error"
             /\ raised' = r.err
             /\ UNCHANGED report
  /\ UNCHANGED <<heap, items, cur, stack, pass, orig, snap, translated_item, rm, ssl,
                 engVars, report_csv>>

(* snippet_status.source = RTB; snippet_status.is_ssl_capable = ... *)
GenFill ==
  /\ pc = "fill"
  /\ report' = [report EXCEPT ![Len(report)] =
                  SetField(SetField(@, FieldNamed("SnippetStatusItem", "source"),
                                    Enums.Source.RTB),
                           FieldNamed("SnippetStatusItem", "is_ssl_capable"),
                           IsSSLCapable(heap, translated_item))]
  /\ pc' = "loop"
  /\ UNCHANGED <<heap, items, cur, stack, pass, orig, snap, translated_item, rm, ssl,
                 raised, engVars, report_csv>>

(* return report *)
GenReturn ==
  /\ pc = "loop" /\ cur = Len(items)
  /\ pc' = "done"
  /\ UNCHANGED <<heap, items, cur, stack, pass, orig, snap, asmVars, engVars, report_csv>>

(* Responses of the creatives.list call: items with an id, attributes,     *)
(* corrections and disapproval reasons.                                    *)
ApiCorrections ==
  {Entry("reason", FLASHLESS_ATTRIBUTE), Entry("reason", SSL_ATTRIBUTE),
   Entry("reason", "VENDOR_IDS")}

ApiItems(id, maxCorr, Attrs, Reasons) ==
  {DictOf({<<"buyerCreativeId", JStr(id)>>, <<"attribute", a>>,
           <<"disapprovalReasons", d>>, <<"corrections", c>>}) :
     a \in Attrs, d \in Reasons,
     c \in {NoValue} \cup {JList(l) : l \in SeqsUpTo(ApiCorrections, maxCorr)}}

ApiAttributes ==
  {NoValue, JList(<<JInt(RICH_MEDIA_CAPABILITY_SSL)>>), JList(<<JInt(1)>>)}

ApiReasons ==
  {NoValue, JList(<<Entry("reason", INVALID_SSL_DECLARATION)>>),
   JList(<<Entry("reason", "PROBLEM_WITH_CLICK_MACRO")>>)}

ItemId(j) == "creative" \o NatStr(j)

(* an item that has a key under both its API name and its report name *)
ClashingItem ==
  DictOf({<<"buyerCreativeId", JStr(ItemId(1))>>, <<"buyer_creative_id", JStr(ItemId(1))>>})

(* one item with up to MaxCorr corrections, one item with a disapproval    *)
(* reason, one item with a clash of names, or several items with no       *)
(* correction                                                              *)
Responses ==
  {<<item>> : item \in ApiItems(ItemId(1), MaxCorr, ApiAttributes, {NoValue})
                         \cup ApiItems(ItemId(1), 1, ApiAttributes, ApiReasons)
                         \cup {ClashingItem}}
    \cup UNION {
      {r \in [1..n -> UNION {ApiItems(ItemId(j), 0, ApiAttributes \ {JList(<<JInt(1)>>)},
                                      {NoValue}) : j \in 1..n}] :
         \A j \in 1..n : r[j].d["buyerCreativeId"] = JStr(ItemId(j))} : n \in 2..MaxItems}

ItemsAddr == <<[k |-> "items"]>>

Init ==
  \E response \in Responses :
    /\ heap = HeapOf(JList(response), ItemsAddr)
    /\ items = heap[ItemsAddr].l
    /\ cur = 0
    /\ orig = response
    /\ pc = "loop"
    /\ translated_item = NoValue /\ rm = 0 /\ report = <<>> /\ ssl = NoValue
    /\ raised = ""
    /\ RenameIdle /\ EngineIdle /\ CsvIdle

Next ==
  \/ GenNext
  \/ ReplaceJSONFields
  \/ GenCopy
  \/ RemoveFlashlessAttributeCorrection
  \/ GenDecode
  \/ GenFill
  \/ GenReturn

Spec == Init /\ [][Next]_vars

----------------------------------------------------------------------------
(* text_format.PrintFieldValue(field, value, out, as_one_line=True) of the *)
(* protobuf runtime: what it writes for one value.                         *)

(* text_encoding.CEscape on printable text, quotes, backslashes and the    *)
(* control characters \t \n \r                                             *)
CEscapeChar(c) ==
  CASE c = "\\" -> "\\\\"
    [] c = "'" -> "\\'"
    [] c = "\"" -> "\\\""
    [] c = "\n" -> "\\n"
    [] c = "\t" -> "\\t"
    [] c = "\r" -> "\\r"
    [] OTHER -> c

RECURSIVE CEscape(_)
CEscape(text) ==
  IF text = "" THEN "" ELSE CEscapeChar(Char(text, 1)) \o CEscape(SubSeq(text, 2, Len(text)))

RECURSIVE PrintFieldValue(_, _)
RECURSIVE PrintMessage(_, _)

(* text_format.PrintField, one line: name, a colon unless the value is a   *)
(* message, the value and a blank                                          *)
PrintField(field, value) ==
  ((field.name \o (IF IsMessageField(field) THEN "" ELSE ": "))
     \o PrintFieldValue(field, value)) \o " "

PrintFieldValue(field, value) ==
  CASE IsMessageField(field) -> (" { " \o PrintMessage(field.message_type, value)) \o "}"
    [] field.type = "ENUM" ->
         LET names == {n \in DOMAIN Enums[field.enum_type] : Enums[field.enum_type][n] = value}
         IN IF names # {} THEN CHOOSE n \in names : TRUE ELSE IntStr(value)
    [] field.type \in {"STRING", "BYTES"} -> ("\"" \o CEscape(value)) \o "\""
    [] field.type = "BOOL" -> IF value THEN "true" ELSE "false"
    [] OTHER -> IntStr(value)

(* text_format.PrintMessage: the fields ListFields() lists, in order *)
PrintMessage(T, message) ==
  LET RECURSIVE of(_)
      of(i) ==
        IF i > Len(Schema[T]) THEN ""
        ELSE LET field == Schema[T][i]
                 RECURSIVE each(_)
                 each(j) ==
                   IF j > Len(message[field.name]) THEN ""
                   ELSE PrintField(field, message[field.name][j]) \o each(j + 1)
             IN (IF field.name \notin DOMAIN message THEN ""
                 ELSE IF field.label = "repeated" THEN each(1)
                 ELSE PrintField(field, message[field.name])) \o of(i + 1)
  IN of(1)

----------------------------------------------------------------------------
(* WriteSnippetStatusReportInCSV(report, report_csv).  The stream is None  *)
(* or holds the rows handed to writer.writerow, each a sequence of cells.  *)

MaxRows == 2

(* name.startswith(prefix) *)
StartsWith(name, prefix) ==
  Len(name) >= Len(prefix) /\ SubSeq(name, 1, Len(prefix)) = prefix

IsActive(field) == ~StartsWith(field.name, "DEPRECATED_")

active_fields == SelectSeq(Schema["SnippetStatusItem"], IsActive)

header_row == [i \in 1..Len(active_fields) |-> active_fields[i].name]

(* sep.join(cells) *)
RECURSIVE Join(_, _)
Join(sep, cells) ==
  IF cells = <<>> THEN ""
  ELSE IF Len(cells) = 1 THEN cells[1]
  ELSE (cells[1] \o sep) \o Join(sep, Tail(cells))

FieldSingletonAsString(field, value) == PrintFieldValue(field, value)

(* the repeated cell without its brackets *)
FieldAsStringBare(field, value) ==
  IF field.label = "repeated"
  THEN Join(";", [j \in 1..Len(value) |-> FieldSingletonAsString(field, value[j])])
  ELSE FieldSingletonAsString(field, value)

FieldAsString(field, value) ==
  IF field.label = "repeated"
  THEN ("[" \o Join(";", [j \in 1..Len(value) |-> FieldSingletonAsString(field, value[j])]))
         \o "]"
  ELSE FieldSingletonAsString(field, value)

(* getattr(snippet_status, field.name, None) *)
GetAttr(pb, field) == IF field.name \in DOMAIN pb THEN pb[field.name] ELSE DefaultValue(field)

SnippetStatusColumns(snippet_status) ==
  [i \in 1..Len(active_fields) |->
     FieldAsString(active_fields[i], GetAttr(snippet_status, active_fields[i]))]

Stream(rows) == [t |-> "stream", rows |-> rows]

(* if not report_csv: return *)
CsvNoStream ==
  /\ pc = "csv" /\ report_csv = NoValue
  /\ pc' = "csv_done"
  /\ UNCHANGED <<heap, items, cur, stack, pass, orig, snap, asmVars, engVars, report_csv>>

(* writer.writerow(header_row) *)
CsvHeader ==
  /\ pc = "csv" /\ report_csv # NoValue
  /\ report_csv' = Stream(Append(report_csv.rows, header_row))
  /\ cur' = 0
  /\ pc' = "csv_rows"
  /\ UNCHANGED <<heap, items, stack, pass, orig, snap, asmVars, engVars>>

(* for snippet_status in report.snippet_status: writer.writerow(columns) *)
CsvRow ==
  /\ pc = "csv_rows" /\ cur < Len(report)
  /\ report_csv' = Stream(Append(report_csv.rows, SnippetStatusColumns(report[cur + 1])))
  /\ cur' = cur + 1
  /\ UNCHANGED <<pc, heap, items, stack, pass, orig, snap, asmVars, engVars>>

CsvReturn ==
  /\ pc = "csv_rows" /\ cur = Len(report)
  /\ pc' = "csv_done"
  /\ UNCHANGED <<heap, items, cur, stack, pass, orig, snap, asmVars, engVars, report_csv>>

WriteSnippetStatusReportInCSV == CsvNoStream \/ CsvHeader \/ CsvRow \/ CsvReturn

(* report items as GenerateSnippetStatusReportPBObject builds them *)
CsvItems ==
  {Message({<<"DEPRECATED_snippet_id", 7, id = "">>, <<"buyer_creative_id", id, id # "">>,
            <<"source", Enums.Source.RTB, TRUE>>, <<"attribute", attribute, attribute # <<>> >>,
            <<"snippet_correction", snippet_correction, snippet_correction # <<>> >>,
            <<"is_ssl_capable", attribute # <<>> /\ attribute[1] = RICH_MEDIA_CAPABILITY_SSL, TRUE>>}) :
     id \in {"", "c1"},
     attribute \in {<<>>, <<RICH_MEDIA_CAPABILITY_SSL>>, <<RICH_MEDIA_CAPABILITY_SSL, 1>>},
     snippet_correction \in {<<>>, <<[type |-> 2, detail |-> <<"a;b", "c">>], [type |-> 1]>>}}

InitCSV ==
  /\ report \in SeqsUpTo(CsvItems, MaxRows)
  /\ report_csv \in {NoValue, Stream(<<>>)}
  /\ pc = "csv"
  /\ cur = 0
  /\ heap = EmptyFcn /\ items = <<>> /\ orig = <<>>
  /\ translated_item = NoValue /\ rm = 0 /\ ssl = NoValue /\ raised = ""
  /\ RenameIdle /\ EngineIdle

SpecCSV == InitCSV /\ [][WriteSnippetStatusReportInCSV]_vars

----------------------------------------------------------------------------
(* What the rename pass is meant to produce: every key whose full key is   *)
(* in KEY_TRANSLATION renamed, its value renamed under full_key + '.',     *)
(* lists renamed element-wise, everything else left alone.                 *)

RECURSIVE Renamed(_, _)
Renamed(v, prefix) ==
  IF v.t = "list"
  THEN JList([j \in 1..Len(v.l) |-> Renamed(v.l[j], prefix)])
  ELSE IF v.t = "dict"
  THEN LET hit(k) == (prefix \o k) \in DOMAIN KEY_TRANSLATION
           name(k) == IF hit(k) THEN KEY_TRANSLATION[prefix \o k] ELSE k
           src(nk) == CHOOSE k \in DOMAIN v.d : name(k) = nk
       IN JDict([nk \in {name(k) : k \in DOMAIN v.d} |->
                  IF hit(src(nk))
                  THEN Renamed(v.d[src(nk)], (prefix \o src(nk)) \o ".")
                  ELSE v.d[src(nk)]])
  ELSE v

(* no two keys of the top-level mapping end up under one name *)
NoClash(v) ==
  \A k1, k2 \in DOMAIN v.d :
    (k1 # k2 /\ k1 \in DOMAIN KEY_TRANSLATION) => KEY_TRANSLATION[k1] # k2

(* C1: after _ReplaceJSONFields(json, KEY_TRANSLATION, '') every key whose *)
(* full key is in the table carries the table's name and its value renamed *)
(* under full_key + '.', and every other key and all beneath it is as it   *)
(* was; the call raises nothing.                                           *)
C1_RenamesEveryTableKey ==
  NoClash(orig[1]) =>
    /\ pc # "error"
    /\ pass = 2 => snap = Renamed(orig[1], "")

(* C5: a second rename pass leaves the result of the first unchanged.      *)
C5_RenameIdempotent ==
  pc = "done" => Deref(heap, items[1]) = snap

----------------------------------------------------------------------------
(* The item functions *)

(* the elements of list k of a tree item, none when the key is missing *)
ElementsOf(item, k) ==
  IF k \in DOMAIN item.d THEN {item.d[k].l[j] : j \in 1..Len(item.d[k].l)} ELSE {}

HasValue(e, k, v) == k \in DOMAIN e.d /\ e.d[k] = JStr(v)

(* C2: _IsSSLCapable(item) is true exactly when 47 is among the item's     *)
(* attributes, no disapproval reason is INVALID_SSL_DECLARATION and no     *)
(* correction has type SSL_ATTRIBUTE; a missing list counts as empty and   *)
(* other correction types do not matter.                                   *)
C2_IsSSLCapableIff ==
  ssl # NoValue =>
    (ssl.b <=>
       /\ JInt(47) \in ElementsOf(orig[1], "attribute")
       /\ \A e \in ElementsOf(orig[1], "disapproval_reason") :
            ~HasValue(e, "reason", "INVALID_SSL_DECLARATION")
       /\ \A e \in ElementsOf(orig[1], "snippet_correction") :
            ~HasValue(e, "type", "SSL_ATTRIBUTE"))

(* an item found capable although it has a FLASHLESS_ATTRIBUTE correction  *)
(* and a disapproval reason other than the sentinel                        *)
C2_Witness ==
  /\ ssl = JBool(TRUE)
  /\ \E e \in ElementsOf(orig[1], "snippet_correction") : HasValue(e, "type", "FLASHLESS_ATTRIBUTE")
  /\ ElementsOf(orig[1], "disapproval_reason") # {}

NotFlashless(e) == ~HasValue(e, "type", "FLASHLESS_ATTRIBUTE")

(* C3: after _RemoveFlashlessAttributeCorrection(item) the list holds no   *)
(* FLASHLESS_ATTRIBUTE entry and all the other entries in their order.     *)
C3_RemovesEveryFlashless ==
  (pc = "decode" /\ "snippet_correction" \in DOMAIN orig[cur].d) =>
    ItemGet(heap, Item, "snippet_correction").l
      = SelectSeq(orig[cur].d["snippet_correction"].l, NotFlashless)

----------------------------------------------------------------------------
(* Report assembly *)

(* item i has been decoded into report[i] *)
Completed(i) == i < cur \/ (i = cur /\ pc \in {"fill", "loop", "done"})

ReportCorrections(i) ==
  IF "snippet_correction" \in DOMAIN report[i] THEN report[i]["snippet_correction"] ELSE <<>>

(* the entries the correction pass left in the list of input item i *)
LeftInItem(i) == ItemGet(heap, heap[items[i].a], "snippet_correction").l

DecodedCorrection(e) == json2pb("SnippetCorrection", e, TRUE)

(* C4: the report item's snippet_correction entries are exactly the        *)
(* entries the correction pass left in the item's correction list, in      *)
(* their order; decoding fails only on an entry that is still in the list. *)
C4_RemovalVisibleToDecode ==
  /\ \A i \in 1..Len(report) :
       Completed(i) =>
         /\ Len(ReportCorrections(i)) = Len(LeftInItem(i))
         /\ \A j \in 1..Len(LeftInItem(i)) :
              ReportCorrections(i)[j] = DecodedCorrection(LeftInItem(i)[j]).v
  /\ (pc = "error" /\ raised = "ValueError") =>
       \E j \in 1..Len(LeftInItem(cur)) : ~DecodedCorrection(LeftInItem(cur)[j]).ok

(* one FLASHLESS_ATTRIBUTE correction and one other: one entry decoded *)
C4_Witness ==
  /\ pc = "done"
  /\ "corrections" \in DOMAIN orig[1].d
  /\ orig[1].d["corrections"].l
       = <<Entry("reason", "FLASHLESS_ATTRIBUTE"), Entry("reason", "VENDOR_IDS")>>
  /\ ReportCorrections(1) = <<[type |-> 1]>>

(* C8: the returned report has one entry per input item, the i-th built    *)
(* from the i-th item, each with source = RTB and is_ssl_capable the       *)
(* capability flag of that item.                                           *)
C8_OneEntryPerItemInOrder ==
  pc = "done" =>
    /\ Len(report) = Len(orig)
    /\ \A i \in 1..Len(report) :
         LET item == heap[items[i].a]
             read == json2pb("SnippetStatusItem", ObjTree(heap, item), TRUE).v
         IN /\ DOMAIN report[i] = DOMAIN read \cup {"source", "is_ssl_capable"}
            /\ \A n \in DOMAIN read \ {"source", "is_ssl_capable"} : report[i][n] = read[n]
            /\ report[i]["source"] = 1
            /\ report[i]["is_ssl_capable"] = IsSSLCapable(heap, item)
            /\ "buyer_creative_id" \in DOMAIN report[i] =>
                 JStr(report[i]["buyer_creative_id"]) = orig[i].d["buyerCreativeId"]

(* two items, the first capable and the second not *)
C8_Witness ==
  /\ pc = "done"
  /\ Len(report) = 2
  /\ report[1]["is_ssl_capable"] /\ ~report[2]["is_ssl_capable"]
  /\ report[1]["buyer_creative_id"] = "creative1"
  /\ report[2]["buyer_creative_id"] = "creative2"

----------------------------------------------------------------------------
(* The mapping engine *)

(* C6: json2pb on pb2json(message), same enum mode on both sides, gives a  *)
(* message equal to the original when every optional field is set and no   *)
(* required field is missing.                                              *)
C6_RoundTrip ==
  pc = "pb_decoded" => decoded = Ok(input)

FieldsOf(T) == {Schema[T][i] : i \in 1..Len(Schema[T])}

(* the mappings json2pb decodes into field of type message: js[field.name] *)
(* or its elements                                                         *)
Nested(field, js) ==
  IF field.label = "repeated"
  THEN {js.d[field.name].l[j] : j \in 1..Len(js.d[field.name].l)}
  ELSE {js.d[field.name]}

(* the required fields absent from the mapping, at every level decoded *)
RECURSIVE MissingRequired(_, _)
MissingRequired(T, js) ==
  {f.name : f \in {g \in FieldsOf(T) : g.label = "required" /\ g.name \notin DOMAIN js.d}}
    \cup UNION {UNION {MissingRequired(f.message_type, m) : m \in Nested(f, js)} :
                  f \in {g \in FieldsOf(T) : IsMessageField(g) /\ g.name \in DOMAIN js.d}}

(* every value present in the mapping converts to its field's type *)
RECURSIVE Converts(_, _, _)
Converts(T, js, mode) ==
  \A f \in {g \in FieldsOf(T) : g.name \in DOMAIN js.d} :
    IF IsMessageField(f)
    THEN \A m \in Nested(f, js) : Converts(f.message_type, m, mode)
    ELSE IF f.label = "repeated"
    THEN \A j \in 1..Len(js.d[f.name].l) : ScalarFromJs(f, js.d[f.name].l[j], mode).ok
    ELSE ScalarFromJs(f, js.d[f.name], mode).ok

NamesMissingField ==
  /\ decoded.err = "RequiredFieldMissing"
  /\ decoded.what # <<>>
  /\ \A j \in 1..Len(decoded.what) : decoded.what[j] \in MissingRequired("Record", input)

(* C7 as stated: whenever a required field is absent from the mapping,     *)
(* json2pb ends with RequiredFieldMissing naming the field and returns no  *)
(* message.                                                                *)
C7_AlwaysRequiredFieldMissing ==
  (pc = "js_decoded" /\ MissingRequired("Record", input) # {}) =>
    ~decoded.ok /\ NamesMissingField

(* C7: whenever a required field is absent from the mapping, json2pb       *)
(* returns no message, and it ends with RequiredFieldMissing naming a      *)
(* missing field unless the conversion of a present value raised first.    *)
C7_RequiredFieldMissing ==
  (pc = "js_decoded" /\ MissingRequired("Record", input) # {}) =>
    /\ ~decoded.ok
    /\ Converts("Record", input, enum_mode) => NamesMissingField

(* the required id is absent, the fields present were processed *)
C7_Witness ==
  /\ pc = "js_decoded"
  /\ DOMAIN input.d = {"name", "nums", "parts", "sub"}
  /\ input.d["nums"].l # <<>>
  /\ decoded = Raise("RequiredFieldMissing", <<"id">>)

(* ftype(v), or the nested json2pb, for one value of field *)
ConvertOne(field, v, mode) ==
  IF IsMessageField(field) THEN json2pb(field.message_type, v, mode)
  ELSE ScalarFromJs(field, v, mode)

(* C10: after a successful json2pb on an empty message every schema field  *)
(* that is not a key of js is unset, keys of js that name no schema field  *)
(* are ignored, and a repeated field holds one converted element per       *)
(* element of the input sequence, in the input order.                      *)
C10_DecodeTouchesOnlyNamedFields ==
  (pc = "js_decoded" /\ decoded.ok) =>
    LET pb == decoded.v
        names == {f.name : f \in FieldsOf("Record")}
        known == JDict([k \in DOMAIN input.d \cap names |-> input.d[k]])
    IN /\ DOMAIN pb \subseteq names \cap DOMAIN input.d
       /\ decoded = json2pb("Record", known, enum_mode)
       /\ \A f \in {g \in FieldsOf("Record") : g.label = "repeated" /\ g.name \in DOMAIN input.d} :
            LET got == IF f.name \in DOMAIN pb THEN pb[f.name] ELSE <<>>
                given == input.d[f.name].l
            IN /\ Len(got) = Len(given)
               /\ \A j \in 1..Len(given) : got[j] = ConvertOne(f, given[j], enum_mode).v

(* a mapping with an unknown key, without name, and two numbers *)
C10_Witness ==
  /\ pc = "js_decoded" /\ decoded.ok
  /\ "extra" \in DOMAIN input.d
  /\ "name" \notin DOMAIN input.d
  /\ "nums" \in DOMAIN decoded.v /\ decoded.v["nums"] = <<2, 1>>
  /\ "parts" \in DOMAIN decoded.v /\ Len(decoded.v["parts"]) = 2

----------------------------------------------------------------------------
(* The CSV output *)

ActiveNames ==
  <<"buyer_creative_id", "source", "advertiser_id", "click_through_url", "attribute",
    "height", "width", "detected_product_category", "disapproval_reason",
    "snippet_correction", "snippet_filtering", "is_ssl_capable">>

(* the cell of column c for report item m *)
CellOf(m, c) ==
  LET field == FieldNamed("SnippetStatusItem", ActiveNames[c])
      value == GetAttr(m, field)
  IN IF field.label = "repeated"
     THEN ("[" \o Join(";", [j \in 1..Len(value) |-> PrintFieldValue(field, value[j])])) \o "]"
     ELSE PrintFieldValue(field, value)

(* C9: the rows written are one header row, the names of the fields that   *)
(* do not start with DEPRECATED_ in declared order, then one row per       *)
(* report item in report order with as many columns as the header; a       *)
(* repeated field's cell is '[' + renderings joined by ';' + ']', a        *)
(* singleton's the plain rendering.  Nothing is written without a stream.  *)
C9_CsvShape ==
  /\ pc = "csv_rows" => report_csv # NoValue
  /\ (pc = "csv_done" /\ report_csv # NoValue) =>
       LET rows == report_csv.rows
       IN /\ Len(rows) = 1 + Len(report)
          /\ rows[1] = ActiveNames
          /\ \A i \in 1..Len(report) :
               /\ Len(rows[i + 1]) = Len(rows[1])
               /\ \A c \in 1..Len(ActiveNames) : rows[i + 1][c] = CellOf(report[i], c)
               /\ "attribute" \notin DOMAIN report[i] => rows[i + 1][5] = "[]"
               /\ rows[i + 1][2] = "RTB"

(* two items written, the second with two attributes and two corrections *)
C9_Witness ==
  /\ pc = "csv_done" /\ report_csv # NoValue
  /\ Len(report_csv.rows) = 3
  /\ report_csv.rows[3][1] = "\"c1\""
  /\ report_csv.rows[3][5] = "[47;1]"
  /\ report_csv.rows[3][10] = "[ { type: SSL_ATTRIBUTE detail: \"a;b\" detail: \"c\" }; { type: VENDOR_IDS }]"
  /\ report_csv.rows[2][5] = "[]"

----------------------------------------------------------------------------
(* The enum codec *)

(* the number a kind given in a mapping stands for; -1 when it is neither  *)
(* a name of the table nor numeric                                         *)
KindGiven(v) ==
  CASE v = JStr("ALPHA") -> 1
    [] v = JStr("BETA") -> 2
    [] v = JInt(7) -> 7
    [] v = JStr("7") -> 7
    [] OTHER -> -1

(* C11: with enum names in use, encoding a code of the table gives its     *)
(* name and any other code gives the code itself, without error; decoding  *)
(* a name of the table gives its number, any other value its integer       *)
(* parse (a number passes through), and fails only when the value is not   *)
(* numeric.                                                                *)
C11_EnumFallback ==
  /\ (pc \in {"encoded", "pb_decoded"} /\ enum_mode) =>
       /\ encoded.ok
       /\ encoded.v.d["kind"] = (CASE input["kind"] = 1 -> JStr("ALPHA")
                                   [] input["kind"] = 2 -> JStr("BETA")
                                   [] OTHER -> JInt(input["kind"]))
  /\ (pc = "pb_decoded" /\ enum_mode) =>
       decoded.ok /\ decoded.v["kind"] = input["kind"]
  /\ (pc = "js_decoded" /\ enum_mode /\ "kind" \in DOMAIN input.d) =>
       LET v == input.d["kind"]
       IN IF KindGiven(v) = -1
          THEN decoded = Raise("ValueError", v.s)
          ELSE IF decoded.ok THEN decoded.v["kind"] = KindGiven(v)
          ELSE \/ decoded.err = "RequiredFieldMissing"
               \/ decoded.err = "ValueError" /\ decoded.what = "x"

(* a code outside the table encoded as itself and decoded back *)
C11_Witness ==
  /\ pc = "pb_decoded" /\ enum_mode
  /\ input["kind"] = 7
  /\ encoded.v.d["kind"] = JInt(7)
  /\ decoded.ok /\ decoded.v["kind"] = 7

----------------------------------------------------------------------------
(* The prefix of nested lookups.  The address of an object is the path of  *)
(* keys and list positions that led to it in the mapping as it was given.  *)

(* the keys on the way to address a, as given, each followed by a dot *)
RECURSIVE OriginalPath(_, _)
OriginalPath(a, n) ==
  IF n = 0 THEN ""
  ELSE IF "k" \in DOMAIN a[n]
  THEN (OriginalPath(a, n - 1) \o a[n].k) \o "."
  ELSE OriginalPath(a, n - 1)

(* the same keys under the names the table gives them *)
RECURSIVE RenamedPath(_, _)
RenamedPath(a, n) ==
  IF n = 0 THEN ""
  ELSE IF "k" \in DOMAIN a[n]
  THEN LET full_key == OriginalPath(a, n - 1) \o a[n].k
           name == IF full_key \in DOMAIN KEY_TRANSLATION
                   THEN KEY_TRANSLATION[full_key] ELSE a[n].k
       IN (RenamedPath(a, n - 1) \o name) \o "."
  ELSE RenamedPath(a, n - 1)

(* C12 as stated: the lookup of a nested key uses the renamed name of its  *)
(* parent as the path prefix.                                              *)
C12_PrefixIsRenamedParent ==
  \A n \in 1..Len(stack) :
    stack[n].prefix = RenamedPath(stack[n].obj, Len(stack[n].obj))

(* C12: the lookup of a nested key uses the name its parent had in the     *)
(* mapping as given, before the rename, as the path prefix.                *)
C12_PrefixIsOriginalParent ==
  \A n \in 1..Len(stack) :
    stack[n].prefix = OriginalPath(stack[n].obj, Len(stack[n].obj))

(* an entry two levels down looked up, and renamed, under the original     *)
(* names of its parents                                                    *)
C12_Witness ==
  \E n \in 1..Len(stack) :
    /\ stack[n].kind = "dict"
    /\ stack[n].prefix = "filteringReasons.reasons."
    /\ "filtering_count" \in DOMAIN heap[stack[n].obj].d
    /\ "snippet_filtering" \in DOMAIN heap[stack[1].obj].d

----------------------------------------------------------------------------
(* The copy of the item *)

FlashlessType(e) == HasValue(e, "type", "FLASHLESS_ATTRIBUTE")
FlashlessReason(e) == HasValue(e, "reason", "FLASHLESS_ATTRIBUTE")

(* the correction list of the copy, and of the item as it was given *)
CopyCorrections == ItemGet(heap, translated_item, "snippet_correction").l
GivenCorrections ==
  IF "corrections" \in DOMAIN orig[cur].d THEN orig[cur].d["corrections"].l ELSE <<>>

----------------------------------------------------------------------------
(* The caller's listing *)

(* item i of response['items'] as it is now *)
ResponseItem(i) == Deref(heap, heap[ItemsAddr].l[i])

====
